---- MODULE Spec2Model ----
(***************************************************************************)
(* Control-flow model of Speller.forward (src/models/speller.py): argument *)
(* validation, the teacher-forcing draw, the two unrolling strategies and  *)
(* the greedy_decode bookkeeping closure.                                  *)
(*                                                                         *)
(* Abstractions.  A tensor of token ids [batch, L] is a sequence of batch  *)
(* rows, each a sequence of L ids.  A step distribution [batch, vocab] is  *)
(* kept as its arg-max index per batch element, the only thing the control *)
(* flow reads of it (topk(1)[1]).  The numeric kernels called by           *)
(* forward_step (embedding, rnn, attention, out, function) are external:   *)
(* the indices they yield are chosen freely.  A hidden state is kept as    *)
(* the number of forward_step transitions applied to the all-zero tensor.  *)
(* An alignment is kept as the index of the step it belongs to.  Ratios    *)
(* and random draws are in hundredths.  An optional value is a sequence of *)
(* length at most one.  A CUDA device is taken to be present (line 128).   *)
(* A target sequence holds at least its start symbol (lines 163, 202).     *)
(* The generator of module random is kept as the values it yields next;    *)
(* speller.py never seeds it, so a process starts with any of them.  A     *)
(* call that needs a value when none is left does not proceed.             *)
(*                                                                         *)
(* Spec lets the kernels yield any indices at every step.  SpecRepeat      *)
(* takes them as the function step(input, hidden, context) of the learned  *)
(* parameters (no dropout noise, the dropout_p = 0 of line 74): it keeps   *)
(* in kernel what that function has yielded so far and repeats a returned  *)
(* call with the same arguments.                                           *)
(***************************************************************************)
EXTENDS Integers, Sequences, FiniteSets, TLC

\* ------------------------------------------------------------------ bounds
MaxBatch == 2
MaxLen == 2
MaxT == MaxLen + 1
\* number of values the process-wide generator yields in a behaviour
MaxDraws == 2
Vocab == {0, 1}

\* teacher_forcing_ratio=0.99, the default of forward, in hundredths
DefaultTeacherForcingRatio == 99
\* ratios a caller passes explicitly, in hundredths
Ratios == {0, 100}
\* values of random.random(), in hundredths: a value of [0, 1)
RandomValues == {0, DefaultTeacherForcingRatio}

None == <<>>
Some(x) == <<x>>
IsNone(o) == o = <<>>
Val(o) == o[1]

KEY_ATTN_SCORE == "attention_score"
KEY_LENGTH == "length"
KEY_SEQUENCE == "sequence"

VARIABLES
    self,                 \* the attributes __init__ sets (and input_dropout, which it does not)
    pc,                   \* position of the call
    args,                 \* the arguments of the call, as passed
    teacher_forcing_ratio,\* the parameter after default binding
    inputs,               \* local inputs after _validate_args
    batch_size,
    max_length,
    speller_hidden,
    rnd,                  \* the values random.random() returned in this call
    use_teacher_forcing,
    speller_outputs,
    sequence_symbols,
    lengths,
    ret_dict,
    speller_input,
    speller_output,       \* the multi-step output of the teacher-forced forward_step
    attn,                 \* its alignments
    di,
    step_calls,           \* forward_step invocations of this call
    error,
    random_state,         \* the process-wide generator of module random: the
                          \* values it yields next
    kernel,               \* what the step function of the learned parameters
                          \* has yielded so far (SpecRepeat)
    previous              \* arguments, draw and results of the last call that
                          \* returned (SpecRepeat)

vars == <<self, pc, args, teacher_forcing_ratio, inputs, batch_size, max_length,
          speller_hidden, rnd, use_teacher_forcing, speller_outputs,
          sequence_symbols, lengths, ret_dict, speller_input, speller_output,
          attn, di, step_calls, error, random_state, kernel, previous>>

\* ------------------------------------------------------------ tensor helpers
\* all [b, t] tensors of token ids
Tensors(b, t) == [1..b -> [1..t -> Vocab]]

\* inputs.size(0), inputs.size(1)
Size0(x) == Len(x)
Size1(x) == Len(x[1])

\* mutant: the first token is dropped instead of the last
AllButFirst(x) == [i \in 1..Len(x) |-> SubSeq(x[i], 2, Len(x[i]))]

\* mutant: the whole target sequence is fed, its final token included
AllButLastKeepAll(x) == x

\* inputs[:, :-1]
AllButLast(x) == [i \in 1..Len(x) |-> SubSeq(x[i], 1, Len(x[i]) - 1)]

\* mutant: the last column is taken
LastColumn(x) == [i \in 1..Len(x) |-> <<x[i][Len(x[i])]>>]

\* inputs[:, 0].unsqueeze(1)
FirstColumn(x) == [i \in 1..Len(x) |-> <<x[i][1]>>]

\* speller_output[:, di, :]
StepSlice(out, d) == [i \in 1..Len(out) |-> out[i][d + 1]]

\* speller_output.squeeze(1)
Squeeze1(out) == [i \in 1..Len(out) |-> out[i][1]]

\* step_output.topk(1)[1]: the index tensor [batch, 1]
Topk1(step_output) == [i \in 1..Len(step_output) |-> <<step_output[i]>>]

\* symbol.data.eq(self.eos_id) ... .view(-1)
EosBatches(symbol, eos_id) == [i \in 1..Len(symbol) |-> symbol[i][1] = eos_id]

\* ------------------------------------------------------------ _validate_args
\* the listener_hidden values a caller passes: a tensor [layers, batch, hidden]
\* for the GRU cell, a pair (h, c) of such tensors for the LSTM cell; only the
\* batch dimension size(1) is kept
ListenerHiddens(rnn_cell) ==
    IF rnn_cell = "lstm"
    THEN {<<[size1 |-> b0], [size1 |-> b1]>> : b0 \in 1..MaxBatch, b1 \in 1..MaxBatch}
    ELSE {[size1 |-> b] : b \in 1..MaxBatch}

\* mutant: the check of listener_outputs is missing
ValidateErrorNoAttnCheck(slf, inp, lo, tfr) ==
    IF IsNone(inp) /\ tfr > 0 THEN "ValueError: teacher forcing" ELSE "none"

\* mutant: only a ratio of 1 without inputs is refused
ValidateErrorRatioOne(slf, inp, lo, tfr) ==
    IF slf.use_attention /\ IsNone(lo)
    THEN "ValueError: listener_outputs"
    ELSE IF IsNone(inp) /\ tfr >= 100
    THEN "ValueError: teacher forcing"
    ELSE "none"

\* mutant: the check of the ratio comes first
ValidateErrorRatioFirst(slf, inp, lo, tfr) ==
    IF IsNone(inp) /\ tfr > 0
    THEN "ValueError: teacher forcing"
    ELSE IF slf.use_attention /\ IsNone(lo)
    THEN "ValueError: listener_outputs"
    ELSE "none"

\* lines 177-179 and 194-196: the error _validate_args raises, "none" if it returns
ValidateError(slf, inp, lo, tfr) ==
    IF slf.use_attention /\ IsNone(lo)
    THEN "ValueError: listener_outputs"
    ELSE IF IsNone(inp) /\ tfr > 0
    THEN "ValueError: teacher forcing"
    ELSE "none"

\* mutant: a supplied listener_hidden takes priority over the inputs
ResolveBatchSizeHiddenFirst(slf, inp, lh) ==
    IF IsNone(inp) /\ IsNone(lh)
    THEN 1
    ELSE IF IsNone(lh)
    THEN Size0(Val(inp))
    ELSE IF slf.rnn_cell = "lstm"
    THEN Val(lh)[1].size1
    ELSE Val(lh).size1

\* lines 181-191
ResolveBatchSize(slf, inp, lh) ==
    IF IsNone(inp) /\ IsNone(lh)
    THEN 1
    ELSE IF ~IsNone(inp)
    THEN Size0(Val(inp))
    ELSE IF slf.rnn_cell = "lstm"
    THEN Val(lh)[1].size1
    ELSE Val(lh).size1

\* lines 197-199: torch.LongTensor([self.sos_id] * batch_size).view(batch_size, 1)
DefaultInputs(sos_id, b) == [i \in 1..b |-> <<sos_id>>]

\* lines 194, 197, 201: the inputs _validate_args returns
ResolveInputs(slf, inp, b) ==
    IF IsNone(inp) THEN DefaultInputs(slf.sos_id, b) ELSE Val(inp)

\* mutant: the start-of-sequence symbol is not subtracted
ResolveMaxLengthNoMinus(slf, inp) ==
    IF IsNone(inp) THEN slf.max_length ELSE Size1(Val(inp))

\* lines 200, 202
ResolveMaxLength(slf, inp) ==
    IF IsNone(inp) THEN slf.max_length ELSE Size1(Val(inp)) - 1

\* ------------------------------------------------------------ forward
\* line 113: binding of the parameter teacher_forcing_ratio
BindRatio(passed) ==
    IF IsNone(passed) THEN DefaultTeacherForcingRatio ELSE Val(passed)

\* mutant: the alignment list still holds an entry of an earlier call
InitRetDictStale(slf) ==
    [attention_score |-> IF slf.use_attention THEN Some(<<Some(0)>>) ELSE None,
     sequence |-> None,
     length |-> None]

\* lines 121-123
InitRetDict(slf) ==
    [attention_score |-> IF slf.use_attention THEN Some(<<>>) ELSE None,
     sequence |-> None,
     length |-> None]

\* line 14: the states the generator of module random can be in when the
\* process has not seeded it, each kept as the values it yields next
RandomStates == [1..MaxDraws -> RandomValues]

\* line 130: the value random.random() returns in generator state g, and the
\* state it leaves
RandomRandom(g) == Head(g)
RandomAdvance(g) == Tail(g)

\* mutant: the comparison is reversed
UseTeacherForcingReversed(r, ratio) == ratio < r

\* mutant: a draw equal to the ratio selects teacher forcing too
UseTeacherForcingOrEqual(r, ratio) == r <= ratio

\* line 130
UseTeacherForcing(r, ratio) == r < ratio

\* mutant: the hidden state of the listener is taken over when one is passed
InitHiddenFromListener(b, lh) == IF IsNone(lh) THEN 0 ELSE 1

\* line 128: torch.zeros(self.layer_size, batch_size, self.hidden_size); the
\* all-zero tensor is 0, whatever listener_hidden holds
InitHidden(b, lh) == 0

\* mutant: lengths start at zero
InitLengthsZero(m, b) == [i \in 1..b |-> 0]

\* line 134: np.array([max_length] * batch_size)
InitLengths(m, b) == [i \in 1..b |-> m]

\* the errors forward_step raises
ForwardStepErrors ==
    {"AttributeError: input_dropout", "RuntimeError: lstm hidden", "RuntimeError: empty input"}

\* lines 102, 105 and 110: the error forward_step raises on input x, "none" if
\* it returns.  self.input_dropout is an attribute __init__ never sets, so the
\* call of line 102 raises AttributeError unless one has been attached to the
\* module; for the LSTM cell line 105 hands nn.LSTM the single tensor of line
\* 128 where it takes a pair (h_0, c_0), which its check of the hidden state
\* refuses with a RuntimeError; for an input of zero steps the
\* view(batch_size, output_size, -1) of line 110 is a reshape of zero elements
\* with an unspecified dimension, a RuntimeError
ForwardStepError(slf, x) ==
    IF ~slf.input_dropout
    THEN "AttributeError: input_dropout"
    ELSE IF slf.rnn_cell = "lstm"
    THEN "RuntimeError: lstm hidden"
    ELSE IF Size1(x) = 0
    THEN "RuntimeError: empty input"
    ELSE "none"

\* lines 105-111: the distributions forward_step may return for an input of
\* shape [b, l], as arg-max indices [b, l]
ForwardStepOutputs(x) == Tensors(Size0(x), Size1(x))

\* lines 106-108, 111: the alignments forward_step returns for l input steps,
\* the first of them being step `first` of the call
ForwardStepAttn(slf, first, l) ==
    IF slf.use_attention THEN Some([d \in 1..l |-> first + d - 1]) ELSE None

\* lines 157-160: attn[:, di, :], or None
StepAttn(a, d) == IF IsNone(a) THEN None ELSE Some(Val(a)[d + 1])

\* line 155: range(speller_output.size(1))
TfLoopContinues(d, out) == d < Size1(out)

\* mutant: the loop stops once every batch element has emitted eos
ArLoopContinuesEarlyExit(d, m, lens) ==
    d < m /\ \E i \in 1..Len(lens) : lens[i] > d

\* line 164: range(max_length)
ArLoopContinues(d, m, lens) == d < m

\* mutant: the guard lengths > step is missing
UpdateIdxNoGuard(lens, step, eos_batches) ==
    [i \in 1..Len(lens) |-> eos_batches[i]]

\* ------------------------------------------------------------ greedy_decode
\* line 146
UpdateIdx(lens, step, eos_batches) ==
    [i \in 1..Len(lens) |-> (lens[i] > step) /\ eos_batches[i]]

\* mutant: the step index is written instead of the number of symbols
LengthsAfterStepIndex(lens, step, symbol, eos_id, n) ==
    [i \in 1..Len(lens) |->
        IF UpdateIdx(lens, step, EosBatches(symbol, eos_id))[i] THEN step ELSE lens[i]]

\* line 147: lengths[update_idx] = len(sequence_symbols)
LengthsAfter(lens, step, symbol, eos_id, n) ==
    [i \in 1..Len(lens) |->
        IF UpdateIdx(lens, step, EosBatches(symbol, eos_id))[i] THEN n ELSE lens[i]]

\* mutant: the alignment is not recorded
AttnScoreAfterSkip(slf, rd, step_attn) == rd

\* lines 138-139
AttnScoreAfter(slf, rd, step_attn) ==
    IF slf.use_attention
    THEN [rd EXCEPT !.attention_score = Some(Append(Val(@), step_attn))]
    ELSE rd

\* line 141
SymbolsAfter(symbols, symbol) == Append(symbols, symbol)

\* lines 136-148
GreedyDecode(step, step_output, step_attn) ==
    /\ speller_outputs' = Append(speller_outputs, step_output)
    /\ ret_dict' = AttnScoreAfter(self, ret_dict, step_attn)
    /\ sequence_symbols' = SymbolsAfter(sequence_symbols, Topk1(step_output))
    /\ lengths' = LengthsAfter(lengths, step, Topk1(step_output), self.eos_id,
                               Len(sequence_symbols'))

\* ------------------------------------------------------------ step function
\* lines 99-111 as the function of the learned parameters: what forward_step
\* yields is fixed by the context it attends to and the inputs it has been fed
\* since the zero state of line 128 (they fix the hidden state it is given)
KernelKey(fed) == [context |-> args.listener_outputs, fed |-> fed]

\* lines 153-154: the one multi-step input of a teacher-forced call
FedTeacherForced == KernelKey(<<AllButLast(Val(inputs))>>)

\* lines 163-169: the inputs of steps 0..di of an autoregressive call
FedAutoregressive == KernelKey(<<FirstColumn(Val(inputs))>> \o sequence_symbols)

\* what forward_step can yield for input x at key: what it yielded there
\* before, anything of the right shape if it has not been there
KernelYields(key, x) ==
    IF \E e \in kernel : e.key = key
    THEN {e.out : e \in {f \in kernel : f.key = key}}
    ELSE ForwardStepOutputs(x)

KernelAfter(key, out) == kernel \cup {[key |-> key, out |-> out]}

\* ------------------------------------------------------------ state machine
Configs ==
    [max_length : 1..MaxLen,
     sos_id : {0},
     eos_id : Vocab \ {0},
     use_attention : BOOLEAN,
     rnn_cell : {"gru", "lstm"},
     input_dropout : BOOLEAN]

TargetInputs == UNION {Tensors(b, t) : b \in 1..MaxBatch, t \in 1..MaxT}

Init ==
    /\ self \in Configs
    /\ pc = "idle"
    /\ random_state \in RandomStates
    /\ kernel = {}
    /\ previous = None
    /\ args = [inputs |-> None, listener_hidden |-> None,
               listener_outputs |-> None, teacher_forcing_ratio |-> None]
    /\ teacher_forcing_ratio = DefaultTeacherForcingRatio
    /\ ret_dict = [attention_score |-> None, sequence |-> None, length |-> None]
    /\ inputs = None
    /\ batch_size = 0
    /\ max_length = 0
    /\ speller_hidden = None
    /\ rnd = <<>>
    /\ use_teacher_forcing = None
    /\ speller_outputs = <<>>
    /\ sequence_symbols = <<>>
    /\ lengths = <<>>
    /\ speller_input = None
    /\ speller_output = None
    /\ attn = None
    /\ di = 0
    /\ step_calls = 0
    /\ error = "none"

\* lines 113, 121-123: forward is entered with these arguments
CallWith(inp, lh, lo, tfr) ==
    /\ pc = "idle"
    /\ args' = [inputs |-> inp, listener_hidden |-> lh,
                listener_outputs |-> lo, teacher_forcing_ratio |-> tfr]
    /\ teacher_forcing_ratio' = BindRatio(tfr)
    /\ ret_dict' = InitRetDict(self)
    /\ inputs' = None
    /\ batch_size' = 0
    /\ max_length' = 0
    /\ speller_hidden' = None
    /\ rnd' = <<>>
    /\ use_teacher_forcing' = None
    /\ speller_outputs' = <<>>
    /\ sequence_symbols' = <<>>
    /\ lengths' = <<>>
    /\ speller_input' = None
    /\ speller_output' = None
    /\ attn' = None
    /\ di' = 0
    /\ step_calls' = 0
    /\ error' = "none"
    /\ pc' = "validate"
    /\ UNCHANGED <<self, random_state, kernel, previous>>

\* the inputs, listener_hidden and listener_outputs a caller passes
InputArgs == {None} \cup {Some(x) : x \in TargetInputs}
ListenerHiddenArgs == {None} \cup {Some(h) : h \in ListenerHiddens(self.rnn_cell)}
ListenerOutputArgs == {None, Some("listener_outputs")}

\* a call of forward
Call ==
    /\ pc = "idle"
    /\ \E inp \in InputArgs, lh \in ListenerHiddenArgs, lo \in ListenerOutputArgs,
          tfr \in {None} \cup {Some(r) : r \in Ratios} :
        CallWith(inp, lh, lo, tfr)

\* line 126, _validate_args raising
ValidateArgsRaises ==
    /\ pc = "validate"
    /\ ValidateError(self, args.inputs, args.listener_outputs, teacher_forcing_ratio) # "none"
    /\ error' = ValidateError(self, args.inputs, args.listener_outputs, teacher_forcing_ratio)
    /\ pc' = "error"
    /\ UNCHANGED <<self, random_state, kernel, previous, args, teacher_forcing_ratio, inputs, batch_size, max_length,
                   speller_hidden, rnd, use_teacher_forcing, speller_outputs,
                   sequence_symbols, lengths, ret_dict, speller_input, speller_output,
                   attn, di, step_calls>>

\* line 126, _validate_args returning
ValidateArgsReturns ==
    /\ pc = "validate"
    /\ ValidateError(self, args.inputs, args.listener_outputs, teacher_forcing_ratio) = "none"
    /\ batch_size' = ResolveBatchSize(self, args.inputs, args.listener_hidden)
    /\ inputs' = Some(ResolveInputs(self, args.inputs, batch_size'))
    /\ max_length' = ResolveMaxLength(self, args.inputs)
    /\ pc' = "prepare"
    /\ UNCHANGED <<self, random_state, kernel, previous, args, teacher_forcing_ratio, speller_hidden, rnd,
                   use_teacher_forcing, speller_outputs, sequence_symbols, lengths,
                   ret_dict, speller_input, speller_output, attn, di, step_calls, error>>

\* lines 128-134 and the branch of line 152
Prepare ==
    /\ pc = "prepare"
    /\ random_state # <<>>
    /\ speller_hidden' = Some(InitHidden(batch_size, args.listener_hidden))
    /\ rnd' = Append(rnd, RandomRandom(random_state))
    /\ random_state' = RandomAdvance(random_state)
    /\ use_teacher_forcing' =
            Some(UseTeacherForcing(RandomRandom(random_state), teacher_forcing_ratio))
    /\ speller_outputs' = <<>>
    /\ sequence_symbols' = <<>>
    /\ lengths' = InitLengths(max_length, batch_size)
    /\ pc' = IF Val(use_teacher_forcing') THEN "teacher_forced" ELSE "autoregressive"
    /\ UNCHANGED <<self, kernel, previous, args, teacher_forcing_ratio, inputs, batch_size, max_length,
                   ret_dict, speller_input, speller_output, attn, di, step_calls, error>>

\* lines 153-154, forward_step raising
TeacherForcedStepRaises ==
    /\ pc = "teacher_forced"
    /\ ForwardStepError(self, AllButLast(Val(inputs))) # "none"
    /\ speller_input' = Some(AllButLast(Val(inputs)))
    /\ step_calls' = step_calls + 1
    /\ error' = ForwardStepError(self, AllButLast(Val(inputs)))
    /\ pc' = "error"
    /\ UNCHANGED <<self, random_state, kernel, previous, args, teacher_forcing_ratio, inputs, batch_size, max_length,
                   speller_hidden, rnd, use_teacher_forcing, speller_outputs,
                   sequence_symbols, lengths, ret_dict, speller_output, attn, di>>

\* lines 153-154: the single multi-step forward_step
TeacherForcedStepYields(out) ==
    /\ pc = "teacher_forced"
    /\ ForwardStepError(self, AllButLast(Val(inputs))) = "none"
    /\ speller_input' = Some(AllButLast(Val(inputs)))
    /\ step_calls' = step_calls + 1
    /\ speller_output' = Some(out)
    /\ speller_hidden' = Some(Val(speller_hidden) + 1)
    /\ attn' = ForwardStepAttn(self, 0, Size1(Val(speller_input')))
    /\ di' = 0
    /\ pc' = "tf_loop"
    /\ UNCHANGED <<self, random_state, previous, args, teacher_forcing_ratio, inputs, batch_size, max_length,
                   rnd, use_teacher_forcing, speller_outputs, sequence_symbols,
                   lengths, ret_dict, error>>

\* lines 153-154, the kernels yielding any indices
TeacherForcedStep ==
    /\ pc = "teacher_forced"
    /\ \E out \in ForwardStepOutputs(AllButLast(Val(inputs))) :
        TeacherForcedStepYields(out)
    /\ UNCHANGED kernel

\* lines 153-154, the kernels being a function of what they are given
TeacherForcedStepFixed ==
    /\ pc = "teacher_forced"
    /\ \E out \in KernelYields(FedTeacherForced, AllButLast(Val(inputs))) :
        /\ TeacherForcedStepYields(out)
        /\ kernel' = KernelAfter(FedTeacherForced, out)

\* lines 155-161: one iteration
TeacherForcedBookkeep ==
    /\ pc = "tf_loop"
    /\ TfLoopContinues(di, Val(speller_output))
    /\ GreedyDecode(di, StepSlice(Val(speller_output), di), StepAttn(attn, di))
    /\ di' = di + 1
    /\ UNCHANGED <<self, random_state, kernel, previous, pc, args, teacher_forcing_ratio, inputs, batch_size,
                   max_length, speller_hidden, rnd, use_teacher_forcing,
                   speller_input, speller_output, attn, step_calls, error>>

\* line 163
AutoregressiveStart ==
    /\ pc = "autoregressive"
    /\ speller_input' = Some(FirstColumn(Val(inputs)))
    /\ di' = 0
    /\ pc' = "ar_loop"
    /\ UNCHANGED <<self, random_state, kernel, previous, args, teacher_forcing_ratio, inputs, batch_size, max_length,
                   speller_hidden, rnd, use_teacher_forcing, speller_outputs,
                   sequence_symbols, lengths, ret_dict, speller_output, attn,
                   step_calls, error>>

\* lines 164-166, forward_step raising
AutoregressiveStepRaises ==
    /\ pc = "ar_loop"
    /\ ArLoopContinues(di, max_length, lengths)
    /\ ForwardStepError(self, Val(speller_input)) # "none"
    /\ step_calls' = step_calls + 1
    /\ error' = ForwardStepError(self, Val(speller_input))
    /\ pc' = "error"
    /\ UNCHANGED <<self, random_state, kernel, previous, args, teacher_forcing_ratio, inputs, batch_size, max_length,
                   speller_hidden, rnd, use_teacher_forcing, speller_outputs,
                   sequence_symbols, lengths, ret_dict, speller_input,
                   speller_output, attn, di>>

\* lines 164-169: one iteration
AutoregressiveStepYields(out) ==
    /\ pc = "ar_loop"
    /\ ArLoopContinues(di, max_length, lengths)
    /\ ForwardStepError(self, Val(speller_input)) = "none"
    /\ step_calls' = step_calls + 1
    /\ speller_output' = Some(out)
    /\ speller_hidden' = Some(Val(speller_hidden) + 1)
    /\ attn' = ForwardStepAttn(self, di, 1)
    /\ GreedyDecode(di, Squeeze1(Val(speller_output')), StepAttn(attn', 0))
    /\ speller_input' = Some(Topk1(Squeeze1(Val(speller_output'))))
    /\ di' = di + 1
    /\ UNCHANGED <<self, random_state, previous, pc, args, teacher_forcing_ratio, inputs, batch_size,
                   max_length, rnd, use_teacher_forcing, error>>

\* lines 164-169, the kernels yielding any indices
AutoregressiveStep ==
    /\ pc = "ar_loop"
    /\ \E out \in ForwardStepOutputs(Val(speller_input)) :
        AutoregressiveStepYields(out)
    /\ UNCHANGED kernel

\* lines 164-169, the kernels being a function of what they are given
AutoregressiveStepFixed ==
    /\ pc = "ar_loop"
    /\ \E out \in KernelYields(FedAutoregressive, Val(speller_input)) :
        /\ AutoregressiveStepYields(out)
        /\ kernel' = KernelAfter(FedAutoregressive, out)

\* lines 171-174
Return ==
    /\ \/ pc = "tf_loop" /\ ~TfLoopContinues(di, Val(speller_output))
       \/ pc = "ar_loop" /\ ~ArLoopContinues(di, max_length, lengths)
    /\ ret_dict' = [ret_dict EXCEPT !.sequence = Some(sequence_symbols),
                                    !.length = Some(lengths)]
    /\ pc' = "done"
    /\ UNCHANGED <<self, random_state, kernel, previous, args, teacher_forcing_ratio, inputs, batch_size, max_length,
                   speller_hidden, rnd, use_teacher_forcing, speller_outputs,
                   sequence_symbols, lengths, speller_input, speller_output, attn,
                   di, step_calls, error>>

\* the call frame ends: the caller has the returned values or the exception,
\* and the locals of forward are gone
ExitFrame ==
    /\ pc \in {"done", "error"}
    /\ pc' = "idle"
    /\ ret_dict' = [attention_score |-> None, sequence |-> None, length |-> None]
    /\ inputs' = None
    /\ batch_size' = 0
    /\ max_length' = 0
    /\ speller_hidden' = None
    /\ rnd' = <<>>
    /\ use_teacher_forcing' = None
    /\ speller_outputs' = <<>>
    /\ sequence_symbols' = <<>>
    /\ lengths' = <<>>
    /\ speller_input' = None
    /\ speller_output' = None
    /\ attn' = None
    /\ di' = 0
    /\ step_calls' = 0
    /\ error' = "none"
    /\ args' = [inputs |-> None, listener_hidden |-> None,
                listener_outputs |-> None, teacher_forcing_ratio |-> None]
    /\ teacher_forcing_ratio' = DefaultTeacherForcingRatio
    /\ UNCHANGED <<self, random_state, kernel>>

Exit == ExitFrame /\ UNCHANGED previous

\* the same, the caller keeping what a call that returned was given and gave
ExitRecord ==
    /\ ExitFrame
    /\ previous' = IF pc = "done"
                   THEN Some([args |-> args,
                              rnd |-> rnd,
                              use_teacher_forcing |-> use_teacher_forcing,
                              speller_outputs |-> speller_outputs,
                              sequence |-> Val(ret_dict.sequence),
                              length |-> Val(ret_dict.length)])
                   ELSE previous

\* the caller repeats the last call that returned, with the same arguments
CallAgain ==
    /\ ~IsNone(previous)
    /\ CallWith(Val(previous).args.inputs, Val(previous).args.listener_hidden,
                Val(previous).args.listener_outputs,
                Val(previous).args.teacher_forcing_ratio)

\* a call of forward with a ratio of exactly 0 or 1, by a caller that has had
\* no call return yet
CallFirst ==
    /\ pc = "idle"
    /\ IsNone(previous)
    /\ \E inp \in InputArgs, lh \in ListenerHiddenArgs, lo \in ListenerOutputArgs,
          r \in Ratios :
        CallWith(inp, lh, lo, Some(r))

Next ==
    \/ Call
    \/ ValidateArgsRaises
    \/ ValidateArgsReturns
    \/ Prepare
    \/ TeacherForcedStepRaises
    \/ TeacherForcedStep
    \/ TeacherForcedBookkeep
    \/ AutoregressiveStart
    \/ AutoregressiveStepRaises
    \/ AutoregressiveStep
    \/ Return
    \/ Exit

Spec == Init /\ [][Next]_vars

\* a caller that passes a ratio of exactly 0 or 1 and repeats the calls that
\* return, on a decoder whose kernels are a function
NextRepeat ==
    \/ CallFirst
    \/ CallAgain
    \/ ValidateArgsRaises
    \/ ValidateArgsReturns
    \/ Prepare
    \/ TeacherForcedStepRaises
    \/ TeacherForcedStepFixed
    \/ TeacherForcedBookkeep
    \/ AutoregressiveStart
    \/ AutoregressiveStepRaises
    \/ AutoregressiveStepFixed
    \/ Return
    \/ ExitRecord

SpecRepeat == Init /\ [][NextRepeat]_vars

\* ------------------------------------------------------------ properties
\* _validate_args has returned in this call
Validated ==
    \/ pc \in {"prepare", "teacher_forced", "autoregressive", "tf_loop", "ar_loop", "done"}
    \/ pc = "error" /\ error \in ForwardStepErrors

\* the bookkeeping accumulators of this call are live
Decoding == pc \in {"tf_loop", "ar_loop", "done"}

\* batch element i predicted eos_id at step s (0-indexed)
PredictedEos(i, s) == sequence_symbols[s + 1][i][1] = self.eos_id

Steps == 0..(Len(sequence_symbols) - 1)

\* step k is the first step at which batch element i predicted eos_id
FirstEosAt(i, k) ==
    /\ PredictedEos(i, k)
    /\ \A j \in 0..(k - 1) : ~PredictedEos(i, j)

\* listener_hidden[0].size(1) for the LSTM pair, listener_hidden.size(1) otherwise
HiddenBatch == IF self.rnn_cell = "lstm"
               THEN Val(args.listener_hidden)[1].size1
               ELSE Val(args.listener_hidden).size1

\* C1: for every batch element, if step k is the first step at which it
\* predicted eos_id, its length is k+1 from then on, in the loops and in the
\* returned list, whatever it predicts at later steps.
C1_FirstEosWins ==
    Decoding =>
        \A i \in 1..Len(lengths) : \A k \in Steps :
            FirstEosAt(i, k) =>
                /\ lengths[i] = k + 1
                /\ pc = "done" => Val(ret_dict.length)[i] = k + 1

\* C1 witness: a call has returned in which an element predicted eos_id at
\* step 0 and again at step 1, and its length is 1.
C1_Witness ==
    /\ pc = "done"
    /\ \E i \in 1..Len(lengths) :
        /\ Len(sequence_symbols) >= 2
        /\ PredictedEos(i, 0)
        /\ PredictedEos(i, 1)
        /\ Val(ret_dict.length)[i] = 1

\* C2: an autoregressive call that returns has made exactly max_length
\* forward_step calls and bookkeeping iterations, returns max_length step
\* outputs and a length list of batch_size entries, whatever was predicted.
C2_AutoregressiveCounts ==
    (pc = "done" /\ ~Val(use_teacher_forcing)) =>
        /\ Len(speller_outputs) = max_length
        /\ step_calls = max_length
        /\ di = max_length
        /\ Len(Val(ret_dict.length)) = batch_size
        /\ batch_size = Size0(Val(inputs))

\* C2 witness: an autoregressive call of two steps has returned in which every
\* batch element predicted eos_id at step 0.
C2_Witness ==
    /\ pc = "done"
    /\ ~Val(use_teacher_forcing)
    /\ batch_size = 2
    /\ max_length = 2
    /\ Len(speller_outputs) = 2
    /\ \A i \in 1..batch_size : PredictedEos(i, 0)

\* C3 (as claimed): every returned length lies in [1, max_length].
C3_LengthsInRange ==
    pc = "done" =>
        \A i \in 1..Len(Val(ret_dict.length)) :
            /\ 1 <= Val(ret_dict.length)[i]
            /\ Val(ret_dict.length)[i] <= max_length

\* C4: a teacher-forced call on a target sequence of length T that returns has
\* made T-1 bookkeeping iterations and returns T-1 step outputs, and T-1 is
\* the resolved max_length.
C4_TeacherForcedCounts ==
    (pc = "done" /\ Val(use_teacher_forcing)) =>
        /\ ~IsNone(args.inputs)
        /\ Len(speller_outputs) = Size1(Val(args.inputs)) - 1
        /\ di = Size1(Val(args.inputs)) - 1
        /\ max_length = Size1(Val(args.inputs)) - 1

\* C4 witness: a teacher-forced call on targets of length 3 has returned two
\* step outputs.
C4_Witness ==
    /\ pc = "done"
    /\ Val(use_teacher_forcing)
    /\ Size1(Val(args.inputs)) = 3
    /\ Len(speller_outputs) = 2

\* C5: a call with attention enabled and no listener_outputs never gets past
\* _validate_args: it ends in the listener_outputs error, with no forward_step
\* call, no random draw, no hidden state, no step output, symbol or length.
C5_MissingListenerOutputs ==
    (pc # "idle" /\ self.use_attention /\ IsNone(args.listener_outputs)) =>
        /\ pc \in {"validate", "error"}
        /\ pc = "error" => error = "ValueError: listener_outputs"
        /\ step_calls = 0
        /\ rnd = <<>>
        /\ IsNone(speller_hidden)
        /\ speller_outputs = <<>>
        /\ sequence_symbols = <<>>
        /\ lengths = <<>>
        /\ IsNone(ret_dict.length)

\* C5 witness: the listener_outputs error has been raised in a call that also
\* has targets, a listener_hidden and a ratio of 0.
C5_Witness ==
    /\ pc = "error"
    /\ error = "ValueError: listener_outputs"
    /\ ~IsNone(args.inputs)
    /\ ~IsNone(args.listener_hidden)
    /\ teacher_forcing_ratio = 0

\* C6: a call without inputs and with a ratio above 0 (the default included)
\* ends in a ValueError of _validate_args, the teacher-forcing one unless the
\* listener_outputs one comes first; a call without inputs and with ratio 0
\* does not raise the teacher-forcing error and unrolls autoregressively.
C6_RatioWithoutInputs ==
    (pc \notin {"idle", "validate"} /\ IsNone(args.inputs)) =>
        /\ teacher_forcing_ratio > 0 =>
            /\ pc = "error"
            /\ error \in {"ValueError: listener_outputs", "ValueError: teacher forcing"}
            /\ ~(self.use_attention /\ IsNone(args.listener_outputs)) =>
                    error = "ValueError: teacher forcing"
        /\ teacher_forcing_ratio = 0 =>
            /\ error # "ValueError: teacher forcing"
            /\ pc \notin {"teacher_forced", "tf_loop"}
            /\ ~IsNone(use_teacher_forcing) => ~Val(use_teacher_forcing)

\* C6 witness: the teacher-forcing error has been raised in a call that left
\* the ratio at its default and supplied a listener_hidden.
C6_Witness ==
    /\ pc = "error"
    /\ error = "ValueError: teacher forcing"
    /\ IsNone(args.teacher_forcing_ratio)
    /\ ~IsNone(args.listener_hidden)

\* C7: in every state the predicted-symbol sequence is as long as the
\* step-output sequence; with attention enabled the attention-score sequence
\* exists during a call and is as long too, without attention it is absent.
C7_EqualStepCounts ==
    /\ Len(sequence_symbols) = Len(speller_outputs)
    /\ (self.use_attention /\ pc # "idle") =>
            /\ ~IsNone(ret_dict.attention_score)
            /\ Len(Val(ret_dict.attention_score)) = Len(speller_outputs)
    /\ ~self.use_attention => IsNone(ret_dict.attention_score)
    /\ pc = "done" => Val(ret_dict.sequence) = sequence_symbols

\* C7 witness: a call with attention has returned two step outputs.
C7_Witness ==
    /\ pc = "done"
    /\ self.use_attention
    /\ Len(speller_outputs) = 2
    /\ Len(Val(ret_dict.attention_score)) = 2

\* C8: if no batch element predicted eos_id at any step of a call that
\* returns, every returned length is max_length.
C8_NoEosFullLength ==
    (pc = "done" /\ \A s \in Steps : \A i \in 1..batch_size : ~PredictedEos(i, s)) =>
        /\ Len(Val(ret_dict.length)) = batch_size
        /\ \A i \in 1..batch_size : Val(ret_dict.length)[i] = max_length

\* C8 witness: a call of two steps on a batch of two has returned and no
\* element predicted eos_id.
C8_Witness ==
    /\ pc = "done"
    /\ batch_size = 2
    /\ Len(sequence_symbols) = 2
    /\ \A s \in Steps : \A i \in 1..batch_size : ~PredictedEos(i, s)
    /\ Val(ret_dict.length) = <<2, 2>>

\* C9: once _validate_args has returned, batch_size is the leading dimension
\* of the inputs if inputs were passed, else the batch dimension of
\* listener_hidden (of its first element for the LSTM cell) if one was passed,
\* else 1.
C9_BatchSizePriority ==
    Validated =>
        /\ ~IsNone(args.inputs) => batch_size = Len(Val(args.inputs))
        /\ (IsNone(args.inputs) /\ ~IsNone(args.listener_hidden)) =>
                batch_size = HiddenBatch
        /\ (IsNone(args.inputs) /\ IsNone(args.listener_hidden)) => batch_size = 1

\* C9 witness: _validate_args has returned in a call that passed inputs and a
\* listener_hidden of another batch dimension.
C9_Witness ==
    /\ Validated
    /\ ~IsNone(args.inputs)
    /\ ~IsNone(args.listener_hidden)
    /\ HiddenBatch # Len(Val(args.inputs))
    /\ batch_size = Len(Val(args.inputs))

\* C10: once _validate_args has returned, max_length is self.max_length if no
\* inputs were passed and the inputs' length minus one otherwise; every length
\* starts at that value, and an autoregressive call that returns has iterated
\* that many times.
C10_MaxLengthResolution ==
    Validated =>
        /\ IsNone(args.inputs) => max_length = self.max_length
        /\ ~IsNone(args.inputs) => max_length = Size1(Val(args.inputs)) - 1
        /\ pc \in {"teacher_forced", "autoregressive"} =>
                /\ Len(lengths) = batch_size
                /\ \A i \in 1..batch_size : lengths[i] = max_length
        /\ (pc = "done" /\ ~Val(use_teacher_forcing)) =>
                /\ di = max_length
                /\ step_calls = max_length

\* C10 witness: an autoregressive call on targets of length 3 has returned
\* after two iterations, on a decoder configured with another maximum.
C10_Witness ==
    /\ pc = "done"
    /\ ~Val(use_teacher_forcing)
    /\ ~IsNone(args.inputs)
    /\ Size1(Val(args.inputs)) = 3
    /\ self.max_length # 2
    /\ di = 2

\* line 130 has run in this call
DrawMade ==
    \/ pc \in {"teacher_forced", "autoregressive", "tf_loop", "ar_loop", "done"}
    \/ pc = "error" /\ error \in ForwardStepErrors

\* C11: a call draws nothing before _validate_args has returned; from line 130
\* on it has drawn exactly one value r, with no forward_step call before the
\* draw; it is in the teacher-forced branch iff r < teacher_forcing_ratio and
\* in the autoregressive branch otherwise, at every step until it ends.
C11_OneDrawPerCall ==
    /\ pc \in {"validate", "prepare"} => (rnd = <<>> /\ step_calls = 0)
    /\ DrawMade =>
        /\ Len(rnd) = 1
        /\ rnd[1] \in RandomValues
        /\ use_teacher_forcing = Some(rnd[1] < teacher_forcing_ratio)
        /\ pc \in {"teacher_forced", "autoregressive"} => step_calls = 0
        /\ pc \in {"teacher_forced", "tf_loop"} => Val(use_teacher_forcing)
        /\ pc \in {"autoregressive", "ar_loop"} => ~Val(use_teacher_forcing)
        /\ (pc = "done" /\ Val(use_teacher_forcing)) => IsNone(attn) = ~self.use_attention
        /\ (pc = "done" /\ ~Val(use_teacher_forcing)) => step_calls = max_length

\* C11 witness: a call with the default ratio drew a value below it and has
\* returned from the teacher-forced branch after two bookkeeping iterations.
C11_Witness ==
    /\ pc = "done"
    /\ IsNone(args.teacher_forcing_ratio)
    /\ rnd = <<0>>
    /\ Val(use_teacher_forcing)
    /\ Len(speller_outputs) = 2

\* C12: with the ratio at exactly 0 or exactly 1 the strategy does not depend
\* on the draw (at 0 every call is autoregressive, at 1 teacher-forced), and a
\* call that repeats one that returned, with the same arguments on the same
\* decoder, returns too, with the same step outputs, the same symbols and the
\* same lengths, whatever the two calls drew.
C12_SameResultAnyDraw ==
    /\ (DrawMade /\ teacher_forcing_ratio = 0) =>
            /\ use_teacher_forcing = Some(FALSE)
            /\ pc \notin {"teacher_forced", "tf_loop"}
    /\ (DrawMade /\ teacher_forcing_ratio = 100) =>
            /\ use_teacher_forcing = Some(TRUE)
            /\ pc \notin {"autoregressive", "ar_loop"}
    /\ (/\ ~IsNone(previous)
        /\ args = Val(previous).args
        /\ teacher_forcing_ratio \in {0, 100}) =>
            /\ pc # "error"
            /\ pc = "done" =>
                /\ speller_outputs = Val(previous).speller_outputs
                /\ Val(ret_dict.sequence) = Val(previous).sequence
                /\ Val(ret_dict.length) = Val(previous).length

\* C12 witness: a call with ratio 0 on inputs of three tokens has returned its
\* two step outputs after a call with the same arguments had returned, and the
\* two calls drew different values.
C12_Witness ==
    /\ pc = "done"
    /\ ~IsNone(previous)
    /\ args = Val(previous).args
    /\ teacher_forcing_ratio = 0
    /\ rnd # Val(previous).rnd
    /\ Len(speller_outputs) = 2
    /\ speller_outputs = Val(previous).speller_outputs

\* C13: a greedy_decode call at step index s (the one that appends symbol
\* number s+1) writes s+1 to the length of exactly the batch elements whose
\* length still is max_length and whose symbol of step s is eos_id, and leaves
\* every other length as it was; no step of a call after line 134 raises a
\* length.
C13_BookkeepingFrame ==
    [][/\ (Len(sequence_symbols') = Len(sequence_symbols) + 1) =>
            /\ di = Len(sequence_symbols)
            /\ Len(lengths') = Len(lengths)
            /\ \A i \in 1..Len(lengths) :
                lengths'[i] =
                    IF /\ lengths[i] = max_length
                       /\ sequence_symbols'[di + 1][i][1] = self.eos_id
                    THEN di + 1
                    ELSE lengths[i]
       /\ pc \in {"tf_loop", "ar_loop"} =>
            /\ Len(lengths') = Len(lengths)
            /\ \A i \in 1..Len(lengths) : lengths'[i] <= lengths[i]
      ]_vars

\* C13 witness: two greedy_decode calls have run on a batch of two; one element
\* predicted eos_id at step 0 and again at step 1 and keeps length 1, the other
\* predicted it at neither step and keeps max_length.
C13_Witness ==
    /\ pc \in {"tf_loop", "ar_loop"}
    /\ Len(sequence_symbols) = 2
    /\ Len(lengths) = 2
    /\ PredictedEos(1, 0) /\ PredictedEos(1, 1)
    /\ ~PredictedEos(2, 0) /\ ~PredictedEos(2, 1)
    /\ lengths = <<1, max_length>>

\* C14: in the autoregressive loop the input of step 0 holds, for every batch
\* element, sos_id when the call got no inputs and the first token of the
\* inputs otherwise; the input of every later step t+1 is the symbol
\* greedy_decode recorded at step t.  No other token of the inputs is a step
\* input.
C14_AutoregressiveInputs ==
    pc = "ar_loop" =>
        /\ ~IsNone(speller_input)
        /\ Len(Val(speller_input)) = batch_size
        /\ di = Len(sequence_symbols)
        /\ di = 0 =>
            \A i \in 1..batch_size :
                Val(speller_input)[i] =
                    IF IsNone(args.inputs)
                    THEN <<self.sos_id>>
                    ELSE <<Val(args.inputs)[i][1]>>
        /\ di > 0 => Val(speller_input) = sequence_symbols[di]

\* C14 witness: an autoregressive call on inputs of three tokens has made
\* step 0, and the input of step 1 is the symbol predicted at step 0, which
\* differs from the second token of the inputs.
C14_Witness ==
    /\ pc = "ar_loop"
    /\ di = 1
    /\ step_calls = 1
    /\ ~IsNone(args.inputs)
    /\ Len(Val(args.inputs)[1]) = 3
    /\ Val(speller_input) = sequence_symbols[1]
    /\ Val(speller_input)[1][1] # Val(args.inputs)[1][2]

\* C15: a teacher-forced call has called forward_step zero times before any
\* greedy_decode call and exactly once from then on, on the inputs without
\* their last token; the greedy_decode iterations leave that input, the hidden
\* state and the call count alone, every recorded symbol is the arg-max of a
\* column of that one output, and the hidden state at return is the one that
\* single call produced.
C15_TeacherForcedSingleStep ==
    /\ pc = "teacher_forced" =>
        /\ step_calls = 0
        /\ speller_outputs = <<>>
        /\ sequence_symbols = <<>>
    /\ (pc \in {"tf_loop", "done"} /\ use_teacher_forcing = Some(TRUE)) =>
        /\ step_calls = 1
        /\ ~IsNone(args.inputs)
        /\ Len(Val(speller_input)) = Len(Val(args.inputs))
        /\ \A i \in 1..Len(Val(args.inputs)) :
            Val(speller_input)[i] =
                SubSeq(Val(args.inputs)[i], 1, Len(Val(args.inputs)[i]) - 1)
        /\ speller_hidden = Some(1)
        /\ \A k \in 1..Len(sequence_symbols) : \A i \in 1..batch_size :
            sequence_symbols[k][i] = <<Val(speller_output)[i][k]>>

\* C15 witness: a teacher-forced call on inputs of three tokens has returned
\* after one forward_step call and two greedy_decode calls, and the symbol
\* predicted at step 0 differs from the token that was the input of step 1.
C15_Witness ==
    /\ pc = "done"
    /\ use_teacher_forcing = Some(TRUE)
    /\ step_calls = 1
    /\ Len(sequence_symbols) = 2
    /\ speller_hidden = Some(1)
    /\ sequence_symbols[1][1][1] # Val(speller_input)[1][2]

\* C16: the hidden state of line 128 is the all-zero tensor whatever
\* listener_hidden is, and it is the state the first forward_step call gets;
\* the state after n forward_step calls is the zero tensor taken through those
\* n calls.  When inputs were passed, every listener_hidden gives the same
\* batch size; the inputs and max_length _validate_args returns never depend
\* on listener_hidden beyond that batch size.
C16_ZeroInitialState ==
    /\ \A b \in 1..MaxBatch : \A lh \in ListenerHiddenArgs : InitHidden(b, lh) = 0
    /\ (~IsNone(speller_hidden) /\ step_calls = 0) => speller_hidden = Some(0)
    /\ (pc = "error" /\ step_calls = 1) => speller_hidden = Some(0)
    /\ (~IsNone(speller_hidden) /\ pc # "error") => Val(speller_hidden) = step_calls
    /\ Validated =>
        /\ ~IsNone(args.inputs) =>
            \A lh \in ListenerHiddenArgs :
                ResolveBatchSize(self, args.inputs, lh) = batch_size
        /\ max_length = ResolveMaxLength(self, args.inputs)
        /\ inputs = Some(ResolveInputs(self, args.inputs, batch_size))

\* C16 witness: a call that passed inputs and a listener_hidden of another
\* batch dimension has made its first forward_step call, and its hidden state
\* is the zero tensor taken through that one call.
C16_Witness ==
    /\ pc \in {"tf_loop", "ar_loop"}
    /\ ~IsNone(args.inputs)
    /\ ~IsNone(args.listener_hidden)
    /\ HiddenBatch # batch_size
    /\ step_calls = 1
    /\ speller_hidden = Some(1)

\* C17: no step changes the configuration of the decoder.  A call starts with
\* a dictionary that holds at most an empty alignment list; after lines 132-134
\* its lists of step outputs and of symbols are empty and every length is its
\* max_length, whatever earlier calls left; and what it returns holds one
\* entry per greedy_decode call of this call and one length per batch element.
C17_NoStateBetweenCalls ==
    [][/\ self' = self
       /\ (pc = "idle" /\ pc' = "validate") =>
            /\ ret_dict'.attention_score = IF self.use_attention THEN Some(<<>>) ELSE None
            /\ ret_dict'.sequence = None
            /\ ret_dict'.length = None
       /\ (pc = "prepare" /\ pc' # "prepare") =>
            /\ speller_outputs' = <<>>
            /\ sequence_symbols' = <<>>
            /\ lengths' = [i \in 1..batch_size |-> max_length]
            /\ ret_dict'.attention_score = IF self.use_attention THEN Some(<<>>) ELSE None
       /\ (pc # "done" /\ pc' = "done") =>
            /\ Len(speller_outputs') = di
            /\ Len(Val(ret_dict'.sequence)) = di
            /\ self.use_attention => Len(Val(ret_dict'.attention_score)) = di
            /\ Len(Val(ret_dict'.length)) = batch_size
            /\ di = IF Val(use_teacher_forcing)
                    THEN Size1(Val(speller_output))
                    ELSE step_calls
      ]_vars

\* C17 witness: the second call that got as far as line 130 on this decoder
\* has returned, with two symbols and two alignments and nothing of the call
\* before it.
C17_Witness ==
    /\ pc = "done"
    /\ random_state = <<>>
    /\ self.use_attention
    /\ Len(Val(ret_dict.sequence)) = 2
    /\ Len(Val(ret_dict.attention_score)) = 2
    /\ Len(speller_outputs) = 2

\* _validate_args has raised in this call
ValidationFailed ==
    pc = "error" /\ error \in {"ValueError: listener_outputs", "ValueError: teacher forcing"}

\* C18: a call in which _validate_args raised has drawn no value, has called
\* forward_step zero times and has chosen no strategy; no step of such a call,
\* from its start to the end of its frame, changes the generator, so the next
\* call draws what it would have drawn without it.  When attention is used
\* and listener_outputs is missing, that is the error raised, also when no
\* inputs were passed with a positive ratio.
C18_FailedValidationDrawsNothing ==
    [][/\ ValidationFailed' =>
            /\ rnd' = <<>>
            /\ step_calls' = 0
            /\ IsNone(use_teacher_forcing')
            /\ IsNone(speller_hidden')
            /\ (self.use_attention /\ IsNone(args'.listener_outputs)) =>
                    error' = "ValueError: listener_outputs"
       /\ (pc \in {"idle", "validate"} \/ ValidationFailed) =>
            random_state' = random_state
       /\ random_state' # random_state =>
            (pc = "prepare" /\ random_state' = Tail(random_state))
      ]_vars

\* C18 witness: after an earlier call that drew one value, a call with
\* attention, without listener_outputs, without inputs and with a positive
\* ratio has raised the error about listener_outputs, and the generator holds
\* what it held when the call started.
C18_Witness ==
    /\ ValidationFailed
    /\ error = "ValueError: listener_outputs"
    /\ IsNone(args.inputs)
    /\ teacher_forcing_ratio > 0
    /\ rnd = <<>>
    /\ Len(random_state) = MaxDraws - 1

====
